---- MODULE Spec2Model ----
(***************************************************************************)
(* The pipeline of AgentCoordinator.run_development_pipeline               *)
(* (src/coordinator.py) over the four agents of src/agents/.               *)
(*                                                                         *)
(* A run is a sequential Python call that blocks only inside llm.invoke.   *)
(* Each action below is the code between two such blocking points.         *)
(*                                                                         *)
(* Texts are records tagged by k, so that formatting and parsing are       *)
(* modelled by what they do:                                               *)
(*   plain   a text without JSON tokens                                    *)
(*   json    a text made of JSON tokens                                    *)
(*   prompt  an agent's user_prompt f-string around message.content        *)
(*   subtask the f-string "Subtask {i+1}: {description}"                   *)
(*   review  the review_content f-string                                   *)
(*   gen     the text the language model returned for a prompt             *)
(*   join    "\n\n".join(parts)                                            *)
(*                                                                         *)
(* Spec is one coordinator running pipelines, SpecSession the interactive  *)
(* session of main.py with its lean set of Planner replies, SpecAgent the  *)
(* agents' send_message called directly.                                   *)
(***************************************************************************)
EXTENDS Integers, Sequences, FiniteSets, TLC

VARIABLES
  now,                  \* logical clock read by datetime.now()
  conversation_history, \* AgentCoordinator.conversation_history
  message_history,      \* BaseAgent.message_history of each agent
  llm_calls,            \* what the agents' llm objects saw: invoke/return/raise
  error_log,            \* what self.logger.error was given
  pc,                   \* where each run stands
  results,              \* the results dict of each run
  user_task,            \* the argument of each run
  subtasks,             \* the local subtasks of each run
  i,                    \* the loop index of each run
  message,              \* the Message the run's current agent is processing
  sent,                 \* the last send_message call made from outside an
                        \* agent: its arguments and the Message it returned
  saved_file,           \* the text of the file run_single_task wrote
  report                \* how display_saved_results ended on that file

vars == <<now, conversation_history, message_history, llm_calls, error_log,
          pc, results, user_task, subtasks, i, message, sent, saved_file,
          report>>

----------------------------------------------------------------------------
(* Bounds of the model *)

\* the longest subtasks list a Planner reply declares
MaxSubtasks == 2

\* the number of calls of run_development_pipeline on the one coordinator
MaxRuns == 1

Runs == 1..MaxRuns

----------------------------------------------------------------------------
(* Values *)

Agents == {"Planner", "Coder", "Debugger", "Reviewer"}

\* Python None
None == [k |-> "None"]

\* a key a dict does not hold
Absent == "<absent>"

\* an empty dict {}
EmptyDict == << >>

Plain(s) == [k |-> "plain", s |-> s]

\* class Message; the timestamp is a reading of the logical clock
Message(sender, recipient, content, timestamp, metadata) ==
  [sender |-> sender, recipient |-> recipient, content |-> content,
   timestamp |-> timestamp, metadata |-> metadata]

(* Python values json.loads gives and json.dumps takes.  A dict is a       *)
(* function from the keys it holds to their values.  overall_approach and  *)
(* the other keys the orchestrator never reads are left out.               *)
JMissing == [t |-> "missing"]
JNull == [t |-> "null"]
JList(items) == [t |-> "list", items |-> items]
JString(s) == [t |-> "string", s |-> s]
Dict(d) == [t |-> "object", d |-> d]

\* a JSON array at top level
JArray == JList(<<JString("step")>>)

\* the plan dict; JMissing for subs leaves the subtasks key out
PlanDoc(subs) ==
  IF subs = JMissing THEN Dict(<< >>) ELSE Dict([subtasks |-> subs])

\* a subtask dict; Absent for an argument leaves its key out
SubtaskObj(id, title, description) ==
  LET all == [id |-> id, title |-> title, description |-> description]
      held == {key \in DOMAIN all : all[key] # Absent}
  IN Dict([key \in held |-> JString(all[key])])

(* JSON text is a sequence of tokens: punctuation, null, string literals   *)
(* and white space.                                                        *)
Tok(c) == [tok |-> c]
TStr(s) == [tok |-> "str", s |-> s]
Ws == [tok |-> "ws"]

\* the order in which a dict's keys are written
KeyOrder ==
  <<"subtasks", "id", "title", "description", "dependencies",
    "original_task", "planner_output", "final_code", "reviewer_output">>

RECURSIVE Dump(_, _), DumpItems(_, _, _), DumpMembers(_, _, _)

\* JSONEncoder: the tokens of value; indent puts white space before every
\* item and member, before the closing bracket and after every colon
Dump(value, indent) ==
  LET pad == IF indent THEN <<Ws>> ELSE << >>
  IN CASE value.t = "null" -> <<Tok("null")>>
       [] value.t = "string" -> <<TStr(value.s)>>
       [] value.t = "list" ->
            IF value.items = << >> THEN <<Tok("["), Tok("]")>>
            ELSE <<Tok("[")>> \o DumpItems(value.items, 1, indent)
                   \o pad \o <<Tok("]")>>
       [] value.t = "object" ->
            LET keys == SelectSeq(KeyOrder, LAMBDA key : key \in DOMAIN value.d)
            IN IF keys = << >> THEN <<Tok("{"), Tok("}")>>
               ELSE <<Tok("{")>> \o DumpMembers(value.d, keys, indent)
                      \o pad \o <<Tok("}")>>

DumpItems(items, n, indent) ==
  (IF indent THEN <<Ws>> ELSE << >>) \o Dump(items[n], indent)
    \o (IF n < Len(items)
          THEN <<Tok(",")>> \o DumpItems(items, n + 1, indent)
          ELSE << >>)

DumpMembers(d, keys, indent) ==
  (IF indent THEN <<Ws>> ELSE << >>) \o <<TStr(Head(keys)), Tok(":")>>
    \o (IF indent THEN <<Ws>> ELSE << >>) \o Dump(d[Head(keys)], indent)
    \o (IF Len(keys) > 1
          THEN <<Tok(",")>> \o DumpMembers(d, Tail(keys), indent)
          ELSE << >>)

\* the text of a token sequence
JsonText(tokens) == [k |-> "json", tokens |-> tokens]

\* json.dumps(value, indent=2)
JsonDumps(value) == JsonText(Dump(value, TRUE))

\* the JSON text of value without white space
Compact(value) == JsonText(Dump(value, FALSE))

RECURSIVE SkipWs(_, _), ParseValue(_, _), ParseItems(_, _, _),
          ParseMembers(_, _, _)

\* the first position at or after n that holds no white space
SkipWs(tokens, n) ==
  IF n <= Len(tokens) /\ tokens[n] = Ws THEN SkipWs(tokens, n + 1) ELSE n

ParseError == [ok |-> FALSE, value |-> JNull, next |-> 0]

\* JSONDecoder: the value that starts at or after position n, and the
\* position after it
ParseValue(tokens, n) ==
  LET p == SkipWs(tokens, n)
  IN IF p > Len(tokens) THEN ParseError
     ELSE CASE tokens[p] = Tok("null") ->
                 [ok |-> TRUE, value |-> JNull, next |-> p + 1]
            [] tokens[p].tok = "str" ->
                 [ok |-> TRUE, value |-> JString(tokens[p].s), next |-> p + 1]
            [] tokens[p] = Tok("[") ->
                 LET q == SkipWs(tokens, p + 1)
                 IN IF q <= Len(tokens) /\ tokens[q] = Tok("]")
                      THEN [ok |-> TRUE, value |-> JList(<< >>), next |-> q + 1]
                      ELSE ParseItems(tokens, p + 1, << >>)
            [] tokens[p] = Tok("{") ->
                 LET q == SkipWs(tokens, p + 1)
                 IN IF q <= Len(tokens) /\ tokens[q] = Tok("}")
                      THEN [ok |-> TRUE, value |-> Dict(<< >>), next |-> q + 1]
                      ELSE ParseMembers(tokens, p + 1, << >>)
            [] OTHER -> ParseError

\* the items of an array after its opening bracket or a comma
ParseItems(tokens, n, items) ==
  LET item == ParseValue(tokens, n)
      q == SkipWs(tokens, item.next)
  IN IF ~item.ok \/ q > Len(tokens) THEN ParseError
     ELSE IF tokens[q] = Tok(",")
       THEN ParseItems(tokens, q + 1, Append(items, item.value))
     ELSE IF tokens[q] = Tok("]")
       THEN [ok |-> TRUE, value |-> JList(Append(items, item.value)),
             next |-> q + 1]
     ELSE ParseError

\* the members of an object after its opening brace or a comma; a key that
\* comes twice keeps its last value
ParseMembers(tokens, n, d) ==
  LET p == SkipWs(tokens, n)
      c == SkipWs(tokens, p + 1)
  IN IF c > Len(tokens) \/ tokens[p].tok # "str" \/ tokens[c] # Tok(":")
       THEN ParseError
     ELSE LET member == ParseValue(tokens, c + 1)
              q == SkipWs(tokens, member.next)
              held == [key \in DOMAIN d \cup {tokens[p].s} |->
                         IF key = tokens[p].s THEN member.value ELSE d[key]]
          IN IF ~member.ok \/ q > Len(tokens) THEN ParseError
             ELSE IF tokens[q] = Tok(",")
               THEN ParseMembers(tokens, q + 1, held)
             ELSE IF tokens[q] = Tok("}")
               THEN [ok |-> TRUE, value |-> Dict(held), next |-> q + 1]
             ELSE ParseError

\* json.loads: JSONDecodeError unless the text is one JSON value with
\* nothing but white space around it
JsonLoads(text) ==
  IF text.k # "json" THEN [ok |-> FALSE, value |-> JNull]
  ELSE LET parsed == ParseValue(text.tokens, 1)
       IN IF parsed.ok /\ SkipWs(text.tokens, parsed.next) > Len(text.tokens)
            THEN [ok |-> TRUE, value |-> parsed.value]
            ELSE [ok |-> FALSE, value |-> JNull]

\* dict.get(key, default)
Get(subtask, key, default) ==
  IF key \in DOMAIN subtask.d THEN subtask.d[key] ELSE default

\* str(value) inside an f-string
Str(value) == IF value.t = "string" THEN value.s ELSE "None"

----------------------------------------------------------------------------
(* The inputs *)

Tasks == {"Build a calculator", "Do X"}

\* texts json.loads rejects
UnparseableReplies == {Plain(""), Plain("not json {"), Plain("I cannot help")}

\* a reply cut off before its closing brace
Truncated(value) ==
  LET tokens == Dump(value, FALSE)
  IN JsonText(SubSeq(tokens, 1, Len(tokens) - 1))

\* the j-th subtask of a plan as the Planner's system prompt asks for it
Declared(j) ==
  SubtaskObj("task_" \o ToString(j), "title_" \o ToString(j),
             "description_" \o ToString(j))

\* what else a reply can put at position j: a subtask without description,
\* one without description and title, and a JSON string
Odd(j) ==
  {SubtaskObj("task_" \o ToString(j), "title_" \o ToString(j), Absent),
   SubtaskObj("task_" \o ToString(j), Absent, Absent),
   JString("step")}

DeclaredList(n) == [j \in 1..n |-> Declared(j)]

\* the subtasks lists of the replies: n declared subtasks, at most one of
\* them replaced by an odd item
SubtaskLists ==
  {DeclaredList(n) : n \in 0..MaxSubtasks}
    \cup UNION {UNION {{[DeclaredList(n) EXCEPT ![p] = x] : x \in Odd(p)} :
                         p \in 1..n} : n \in 1..MaxSubtasks}

\* the JSON documents the language model may answer the Planner with
PlanDocs ==
  {JArray, PlanDoc(JMissing), PlanDoc(JNull)}
    \cup {PlanDoc(JList(l)) : l \in SubtaskLists}

\* replies the language model wrote with indentation
IndentedReplies == {JsonDumps(PlanDoc(JList(DeclaredList(MaxSubtasks))))}

PlannerReplies ==
  UnparseableReplies \cup {Truncated(PlanDoc(JList(DeclaredList(1))))}
    \cup IndentedReplies
    \cup {Compact(d) : d \in PlanDocs}

\* the ways a plan declares dependencies: on an id no subtask has, on the
\* next subtask, in a cycle through all subtasks, and between subtasks that
\* all have the same id
DependencyKinds == {"unresolved", "forward", "cycle", "duplicate"}

\* the ids subtask j of K depends on
DependsOn(kind, j, K) ==
  CASE kind = "unresolved" -> <<"task_0">>
    [] kind = "forward" ->
         IF j < K THEN <<"task_" \o ToString(j + 1)>> ELSE << >>
    [] kind = "cycle" -> <<"task_" \o ToString((j % K) + 1)>>
    [] kind = "duplicate" -> <<"task_1", "task_1">>

\* the j-th subtask of K with its dependencies key
Dependent(kind, j, K) ==
  LET subtask ==
        SubtaskObj(IF kind = "duplicate" THEN "task_1" ELSE "task_" \o ToString(j),
                   "title_" \o ToString(j), "description_" \o ToString(j))
      ids == DependsOn(kind, j, K)
  IN Dict([key \in DOMAIN subtask.d \cup {"dependencies"} |->
             IF key = "dependencies"
               THEN JList([n \in 1..Len(ids) |-> JString(ids[n])])
               ELSE subtask.d[key]])

DependentList(kind, K) == [j \in 1..K |-> Dependent(kind, j, K)]

\* the plans with dependencies, each with the text of the reply that holds it
DependencyPlans ==
  {[text |-> Compact(PlanDoc(JList(DependentList(kind, K)))),
    list |-> DependentList(kind, K)] :
     kind \in DependencyKinds, K \in 1..MaxSubtasks}

\* the Planner replies of the runs on plans with dependencies; the plan
\* whose subtasks is null is the one among them that the loop cannot iterate
DependencyReplies ==
  {plan.text : plan \in DependencyPlans} \cup {Compact(PlanDoc(JNull))}

----------------------------------------------------------------------------
(* The agents *)

\* the user_prompt f-string of each process_message
UserPrompt(agent, content) == [k |-> "prompt", agent |-> agent, content |-> content]

\* the n-th invocation of a language model, answering prompt
GenText(agent, prompt, n) == [k |-> "gen", by |-> agent, re |-> prompt, n |-> n]

Invoke(r, agent, prompt) == [ev |-> "invoke", run |-> r, agent |-> agent, text |-> prompt]
Return(r, agent, text) == [ev |-> "return", run |-> r, agent |-> agent, text |-> text]
Raise(r, agent) == [ev |-> "raise", run |-> r, agent |-> agent, text |-> None]

IsInvoke(e) == e.ev = "invoke"

\* the number of language-model invocations so far
NumInvokes == Len(SelectSeq(llm_calls, IsInvoke))

\* a reply made by changing the fields of the Message the agent received
\* last: the history holds it in place of that Message
log_messageInPlace(history, agent, m) ==
  IF m.sender = agent /\ history[agent] # << >>
    THEN [history EXCEPT ![agent][Len(history[agent])] = m]
    ELSE [history EXCEPT ![agent] = Append(@, m)]

\* BaseAgent.log_message
log_message(history, agent, m) == [history EXCEPT ![agent] = Append(@, m)]

\* a send_message that stores the metadata argument as it came
send_messageAsPassed(name, recipient, content, metadata, t) ==
  Message(name, recipient, content, t, metadata)

\* BaseAgent.send_message at clock reading t: the new Message
send_message(name, recipient, content, metadata, t) ==
  Message(name, recipient, content, t, IF metadata = None THEN EmptyDict ELSE metadata)

\* a Planner that re-serialises only the subtasks of the plan
PlannerContentSubtasksOnly(text) ==
  LET plan_data == JsonLoads(text)
  IN IF plan_data.ok /\ plan_data.value.t = "object"
       THEN JsonDumps(Get(plan_data.value, "subtasks", JNull))
       ELSE text

\* PlannerAgent.process_message, lines 65-71: canonicalise or keep raw
PlannerContent(text) ==
  LET plan_data == JsonLoads(text)
  IN IF plan_data.ok THEN JsonDumps(plan_data.value) ELSE text

AgentMetadata(agent, m) ==
  CASE agent = "Planner" -> [task_type |-> "plan", original_task |-> m.content]
    [] agent = "Coder" -> [task_type |-> "code", subtask |-> m.content]
    [] agent = "Debugger" -> [task_type |-> "debug", code_review |-> TRUE]
    [] agent = "Reviewer" -> [task_type |-> "review", final_assessment |-> TRUE]

\* a reply addressed to the recipient of the incoming Message
ReplyToRecipient(agent, m, text, t) ==
  send_message(agent, m.recipient,
               IF agent = "Planner" THEN PlannerContent(text) ELSE text,
               AgentMetadata(agent, m), t)

\* the reply Message of process_message once the language model returned text
Reply(agent, m, text, t) ==
  send_message(agent, m.sender,
               IF agent = "Planner" THEN PlannerContent(text) ELSE text,
               AgentMetadata(agent, m), t)

----------------------------------------------------------------------------
(* The orchestrator *)

\* the text fields initialised to the empty text instead of None
NewResultsBlank(task) ==
  [original_task |-> task,
   planner_output |-> Plain(""),
   coder_outputs |-> << >>,
   debugger_outputs |-> << >>,
   reviewer_output |-> Plain(""),
   final_code |-> Plain(""),
   conversation_history |-> "own"]

NewResults(task) ==
  [original_task |-> task,
   planner_output |-> None,
   coder_outputs |-> << >>,
   debugger_outputs |-> << >>,
   reviewer_output |-> None,
   final_code |-> None,
   conversation_history |-> "own"]

\* the fallback subtask with title and description exchanged
FallbackSubtaskSwapped(task) ==
  SubtaskObj("task_1", task, "Implement the requested functionality")

FallbackSubtask(task) ==
  SubtaskObj("task_1", "Implement the requested functionality", task)

\* a handler that catches the parse error only
CaughtJSONDecodeError(exc) == exc = "JSONDecodeError"

\* the exceptions the handler `except Exception` catches
Caught(exc) ==
  exc \in {"GenerationError", "AttributeError", "TypeError", "IndexError"}

\* lines 95-100: the inner try around json.loads and plan_data.get
ParsePlan(content, task) ==
  LET plan_data == JsonLoads(content)
  IN IF ~plan_data.ok
       THEN [exc |-> "none", subtasks |-> JList(<<FallbackSubtask(task)>>)]
     ELSE IF plan_data.value.t # "object"
       THEN [exc |-> "AttributeError", subtasks |-> JNull]
     ELSE [exc |-> "none",
           subtasks |-> Get(plan_data.value, "subtasks", JList(<< >>))]

\* a request that numbers the subtasks from 0, as enumerate does
SubtaskRequestFromZero(n, description) ==
  [k |-> "subtask", n |-> n - 1, description |-> description]

\* the f-string of line 111
SubtaskRequest(n, description) ==
  [k |-> "subtask", n |-> n, description |-> description]

\* a review_content that puts the first feedback after the code of every
\* subtask
ReviewContentFirstFeedback(task, res) ==
  [k |-> "review", task |-> task, plan |-> res.planner_output,
   parts |-> [j \in 1..Len(res.coder_outputs) |->
                [n |-> j, code |-> res.coder_outputs[j].code,
                 feedback |-> res.debugger_outputs[1].feedback]]]

\* lines 144-154: the review_content f-string
ReviewContent(task, res) ==
  [k |-> "review", task |-> task, plan |-> res.planner_output,
   parts |-> [j \in 1..Len(res.coder_outputs) |->
                [n |-> j, code |-> res.coder_outputs[j].code,
                 feedback |-> res.debugger_outputs[j].feedback]]]

\* sep.join(parts): the empty text for no part, the part itself for one
Join(sep, parts) ==
  IF parts = << >> THEN Plain("")
  ELSE IF Len(parts) = 1 THEN parts[1]
  ELSE [k |-> "join", sep |-> sep, parts |-> parts]

\* the join that keeps only the code of the last coder output
FinalCodeLast(coder_outputs) ==
  Join("\n\n", IF coder_outputs = << >> THEN << >>
                ELSE <<coder_outputs[Len(coder_outputs)].code>>)

\* line 169: "\n\n".join of the code of every coder output
FinalCode(coder_outputs) ==
  Join("\n\n", [j \in 1..Len(coder_outputs) |-> coder_outputs[j].code])

\* the conversation_history a caller reads in the bundle of run r: the list
\* made at line 76, or the coordinator's own list once line 170 has run
BundleHistory(r) ==
  IF results[r].conversation_history = "shared" THEN conversation_history ELSE << >>

\* a loop that runs, in place of a subtask, the subtask its first
\* dependency names
CurrentSubtaskByDependency(r) ==
  LET items == subtasks[r].items
      subtask == items[i[r] + 1]
      first == IF subtask.t = "object"
                 THEN Get(subtask, "dependencies", JList(<< >>)).items
                 ELSE << >>
      named == {j \in 1..Len(items) :
                  /\ first # << >>
                  /\ items[j].t = "object"
                  /\ Get(items[j], "id", JNull) = first[1]}
  IN IF named = {} THEN subtask
     ELSE items[CHOOSE j \in named : \A n \in named : j <= n]

\* the loop variable read as the first subtask at every iteration
CurrentSubtaskFirst(r) == subtasks[r].items[1]

\* line 104: the subtask the loop of run r is at
CurrentSubtask(r) == subtasks[r].items[i[r] + 1]

\* the loop left after its first iteration
LoopExhaustedAfterFirst(r) == i[r] >= Len(subtasks[r].items) \/ i[r] >= 1

\* line 104: the for loop of run r has no subtask left
LoopExhausted(r) == i[r] >= Len(subtasks[r].items)

\* the coder output assigned as the whole list instead of appended
RecordCoderOverwrite(res, subtask, code) ==
  [res EXCEPT !.coder_outputs = <<[subtask |-> subtask, code |-> code]>>]

\* lines 117-120
RecordCoder(res, subtask, code) ==
  [res EXCEPT !.coder_outputs = Append(@, [subtask |-> subtask, code |-> code])]

\* a loop that records no debugger output
RecordDebuggerDropped(res, subtask, feedback) == res

\* the debugger output assigned as the whole list instead of appended
RecordDebuggerOverwrite(res, subtask, feedback) ==
  [res EXCEPT !.debugger_outputs = <<[subtask |-> subtask, feedback |-> feedback]>>]

\* lines 134-137
RecordDebugger(res, subtask, feedback) ==
  [res EXCEPT !.debugger_outputs =
     Append(@, [subtask |-> subtask, feedback |-> feedback])]

\* a handler that starts the pipeline over instead of returning
HandlerPcRestart(exc) == "idle"

\* a handler that logs the exception and raises it again
HandlerPcReraise(exc) == "raised"

\* lines 174-178: an exception leaves the try block
HandlerPc(exc) == IF Caught(exc) THEN "failed" ELSE "raised"
HandlerLog(r, exc) ==
  IF Caught(exc) THEN Append(error_log, [run |-> r, exc |-> exc]) ELSE error_log

----------------------------------------------------------------------------
(* Initial state: a coordinator just constructed, no run called yet *)

Init ==
  /\ now = 0
  /\ conversation_history = << >>
  /\ message_history = [a \in Agents |-> << >>]
  /\ llm_calls = << >>
  /\ error_log = << >>
  /\ pc = [r \in Runs |-> "idle"]
  /\ results = [r \in Runs |-> None]
  /\ user_task = [r \in Runs |-> ""]
  /\ subtasks = [r \in Runs |-> JNull]
  /\ i = [r \in Runs |-> 0]
  /\ message = [r \in Runs |-> None]
  /\ sent = None
  /\ saved_file = None
  /\ report = None

----------------------------------------------------------------------------
(* Actions *)

\* a run that constructs its agents anew: their histories start empty
StartNewAgents(r, task) ==
  /\ pc[r] = "idle"
  /\ LET user_message == Message("User", "Planner", Plain(task), now, EmptyDict)
     IN /\ message_history' =
             log_message([a \in Agents |-> << >>], "Planner", user_message)
        /\ llm_calls' = Append(llm_calls,
             Invoke(r, "Planner", UserPrompt("Planner", user_message.content)))
        /\ message' = [message EXCEPT ![r] = user_message]
  /\ user_task' = [user_task EXCEPT ![r] = task]
  /\ results' = [results EXCEPT ![r] = NewResults(task)]
  /\ now' = now + 1
  /\ pc' = [pc EXCEPT ![r] = "planner_llm"]
  /\ UNCHANGED <<sent, saved_file, report, conversation_history, error_log, subtasks, i>>

\* lines 64-89, and PlannerAgent.process_message up to llm.invoke
Start(r, task) ==
  /\ pc[r] = "idle"
  /\ LET user_message == Message("User", "Planner", Plain(task), now, EmptyDict)
     IN /\ message_history' = log_message(message_history, "Planner", user_message)
        /\ llm_calls' = Append(llm_calls,
             Invoke(r, "Planner", UserPrompt("Planner", user_message.content)))
        /\ message' = [message EXCEPT ![r] = user_message]
  /\ user_task' = [user_task EXCEPT ![r] = task]
  /\ results' = [results EXCEPT ![r] = NewResults(task)]
  /\ now' = now + 1
  /\ pc' = [pc EXCEPT ![r] = "planner_llm"]
  /\ UNCHANGED <<sent, saved_file, report, conversation_history, error_log, subtasks, i>>

\* the Planner's llm.invoke returns text: PlannerAgent.process_message lines
\* 65-77, then lines 90-100
PlannerReturn(r, text) ==
  /\ pc[r] = "planner_llm"
  /\ LET planner_response == Reply("Planner", message[r], text, now)
         parsed == ParsePlan(planner_response.content, user_task[r])
     IN /\ llm_calls' = Append(llm_calls, Return(r, "Planner", text))
        /\ message_history' = log_message(message_history, "Planner", planner_response)
        /\ conversation_history' = Append(conversation_history, planner_response)
        /\ results' = [results EXCEPT ![r].planner_output = planner_response.content]
        /\ IF parsed.exc = "none"
             THEN /\ subtasks' = [subtasks EXCEPT ![r] = parsed.subtasks]
                  /\ pc' = [pc EXCEPT ![r] = "loop"]
                  /\ UNCHANGED error_log
             ELSE /\ pc' = [pc EXCEPT ![r] = HandlerPc(parsed.exc)]
                  /\ error_log' = HandlerLog(r, parsed.exc)
                  /\ UNCHANGED subtasks
  /\ now' = now + 1
  /\ UNCHANGED <<sent, saved_file, report, user_task, i, message>>

\* lines 104-105 raise: enumerate of a non-iterable, or .get on a non-dict
LoopRaise(r) ==
  /\ pc[r] = "loop"
  /\ \/ /\ subtasks[r].t # "list"
        /\ pc' = [pc EXCEPT ![r] = HandlerPc("TypeError")]
        /\ error_log' = HandlerLog(r, "TypeError")
     \/ /\ subtasks[r].t = "list"
        /\ ~LoopExhausted(r)
        /\ CurrentSubtask(r).t # "object"
        /\ pc' = [pc EXCEPT ![r] = HandlerPc("AttributeError")]
        /\ error_log' = HandlerLog(r, "AttributeError")
  /\ UNCHANGED <<sent, saved_file, report, now, conversation_history, message_history, llm_calls,
                 results, user_task, subtasks, i, message>>

\* a loop that hands the subtask to the Coder and, without waiting for the
\* reply, hands it the subtask once more
CoderInvokeTwice(r) ==
  /\ pc[r] = "loop"
  /\ subtasks[r].t = "list"
  /\ ~LoopExhausted(r)
  /\ CurrentSubtask(r).t = "object"
  /\ LET subtask == CurrentSubtask(r)
         coder_message ==
           Message("Planner", "Coder",
                   SubtaskRequest(i[r] + 1,
                     Str(Get(subtask, "description",
                             Get(subtask, "title", JString(""))))),
                   now, EmptyDict)
     IN /\ message_history' = log_message(message_history, "Coder", coder_message)
        /\ llm_calls' = llm_calls \o
             <<Invoke(r, "Coder", UserPrompt("Coder", coder_message.content)),
               Invoke(r, "Coder", UserPrompt("Coder", coder_message.content))>>
        /\ message' = [message EXCEPT ![r] = coder_message]
  /\ now' = now + 1
  /\ pc' = [pc EXCEPT ![r] = "coder_llm"]
  /\ UNCHANGED <<sent, saved_file, report, conversation_history, error_log, results, user_task,
                 subtasks, i>>

\* a loop that logs the request it hands to the Coder in the conversation
\* history
CoderInvokeLogged(r) ==
  /\ pc[r] = "loop"
  /\ subtasks[r].t = "list"
  /\ ~LoopExhausted(r)
  /\ CurrentSubtask(r).t = "object"
  /\ LET subtask == CurrentSubtask(r)
         coder_message ==
           Message("Planner", "Coder",
                   SubtaskRequest(i[r] + 1,
                     Str(Get(subtask, "description",
                             Get(subtask, "title", JString(""))))),
                   now, EmptyDict)
     IN /\ message_history' = log_message(message_history, "Coder", coder_message)
        /\ conversation_history' = Append(conversation_history, coder_message)
        /\ llm_calls' = Append(llm_calls,
             Invoke(r, "Coder", UserPrompt("Coder", coder_message.content)))
        /\ message' = [message EXCEPT ![r] = coder_message]
  /\ now' = now + 1
  /\ pc' = [pc EXCEPT ![r] = "coder_llm"]
  /\ UNCHANGED <<sent, saved_file, report, error_log, results, user_task, subtasks, i>>

\* lines 104-115 for the next subtask, and CoderAgent.process_message up to
\* llm.invoke
CoderInvoke(r) ==
  /\ pc[r] = "loop"
  /\ subtasks[r].t = "list"
  /\ ~LoopExhausted(r)
  /\ CurrentSubtask(r).t = "object"
  /\ LET subtask == CurrentSubtask(r)
         coder_message ==
           Message("Planner", "Coder",
                   SubtaskRequest(i[r] + 1,
                     Str(Get(subtask, "description",
                             Get(subtask, "title", JString(""))))),
                   now, EmptyDict)
     IN /\ message_history' = log_message(message_history, "Coder", coder_message)
        /\ llm_calls' = Append(llm_calls,
             Invoke(r, "Coder", UserPrompt("Coder", coder_message.content)))
        /\ message' = [message EXCEPT ![r] = coder_message]
  /\ now' = now + 1
  /\ pc' = [pc EXCEPT ![r] = "coder_llm"]
  /\ UNCHANGED <<sent, saved_file, report, conversation_history, error_log, results, user_task, subtasks, i>>

\* a loop that hands the Debugger the code of the run's first coder output
\* at every iteration
CoderReturnStale(r, text) ==
  /\ pc[r] = "coder_llm"
  /\ LET subtask == CurrentSubtask(r)
         coder_response == Reply("Coder", message[r], text, now)
         recorded == RecordCoder(results[r], subtask, coder_response.content)
         debugger_message ==
           Message("Coder", "Debugger", recorded.coder_outputs[1].code,
                   now + 1, EmptyDict)
     IN /\ message_history' =
             log_message(log_message(message_history, "Coder", coder_response),
                         "Debugger", debugger_message)
        /\ conversation_history' = Append(conversation_history, coder_response)
        /\ results' = [results EXCEPT ![r] = recorded]
        /\ llm_calls' = llm_calls \o
             <<Return(r, "Coder", text),
               Invoke(r, "Debugger", UserPrompt("Debugger", debugger_message.content))>>
        /\ message' = [message EXCEPT ![r] = debugger_message]
  /\ now' = now + 2
  /\ pc' = [pc EXCEPT ![r] = "debugger_llm"]
  /\ UNCHANGED <<sent, saved_file, report, error_log, user_task, subtasks, i>>

\* the Coder's llm.invoke returns text: CoderAgent.process_message lines 57-61,
\* lines 116-132, and DebuggerAgent.process_message up to llm.invoke
CoderReturn(r, text) ==
  /\ pc[r] = "coder_llm"
  /\ LET subtask == CurrentSubtask(r)
         coder_response == Reply("Coder", message[r], text, now)
         debugger_message ==
           Message("Coder", "Debugger", coder_response.content, now + 1, EmptyDict)
     IN /\ message_history' =
             log_message(log_message(message_history, "Coder", coder_response),
                         "Debugger", debugger_message)
        /\ conversation_history' = Append(conversation_history, coder_response)
        /\ results' = [results EXCEPT
             ![r] = RecordCoder(@, subtask, coder_response.content)]
        /\ llm_calls' = llm_calls \o
             <<Return(r, "Coder", text),
               Invoke(r, "Debugger", UserPrompt("Debugger", debugger_message.content))>>
        /\ message' = [message EXCEPT ![r] = debugger_message]
  /\ now' = now + 2
  /\ pc' = [pc EXCEPT ![r] = "debugger_llm"]
  /\ UNCHANGED <<sent, saved_file, report, error_log, user_task, subtasks, i>>

\* the Debugger's llm.invoke returns text: DebuggerAgent.process_message lines
\* 64-68, then lines 133-138 and the loop's next iteration
DebuggerReturn(r, text) ==
  /\ pc[r] = "debugger_llm"
  /\ LET subtask == CurrentSubtask(r)
         debugger_response == Reply("Debugger", message[r], text, now)
     IN /\ message_history' = log_message(message_history, "Debugger", debugger_response)
        /\ conversation_history' = Append(conversation_history, debugger_response)
        /\ results' = [results EXCEPT
             ![r] = RecordDebugger(@, subtask, debugger_response.content)]
        /\ llm_calls' = Append(llm_calls, Return(r, "Debugger", text))
  /\ now' = now + 1
  /\ i' = [i EXCEPT ![r] = @ + 1]
  /\ pc' = [pc EXCEPT ![r] = "loop"]
  /\ UNCHANGED <<sent, saved_file, report, error_log, user_task, subtasks, message>>

\* the loop is exhausted: lines 140-163, and ReviewerAgent.process_message up
\* to llm.invoke
ReviewInvoke(r) ==
  /\ pc[r] = "loop"
  /\ subtasks[r].t = "list"
  /\ LoopExhausted(r)
  /\ IF Len(results[r].debugger_outputs) < Len(results[r].coder_outputs)
       THEN \* debugger_outputs[i] of line 154 is out of range
            /\ pc' = [pc EXCEPT ![r] = HandlerPc("IndexError")]
            /\ error_log' = HandlerLog(r, "IndexError")
            /\ UNCHANGED <<now, message_history, llm_calls, message>>
       ELSE LET reviewer_message ==
                  Message("Coordinator", "Reviewer",
                          ReviewContent(user_task[r], results[r]), now, EmptyDict)
            IN /\ message_history' =
                    log_message(message_history, "Reviewer", reviewer_message)
               /\ llm_calls' = Append(llm_calls,
                    Invoke(r, "Reviewer", UserPrompt("Reviewer", reviewer_message.content)))
               /\ message' = [message EXCEPT ![r] = reviewer_message]
               /\ now' = now + 1
               /\ pc' = [pc EXCEPT ![r] = "reviewer_llm"]
               /\ UNCHANGED error_log
  /\ UNCHANGED <<sent, saved_file, report, conversation_history, results, user_task, subtasks, i>>

\* the Reviewer's llm.invoke returns text: ReviewerAgent.process_message lines
\* 65-69, then lines 164-172 and the return of line 178
ReviewerReturn(r, text) ==
  /\ pc[r] = "reviewer_llm"
  /\ LET reviewer_response == Reply("Reviewer", message[r], text, now)
     IN /\ message_history' = log_message(message_history, "Reviewer", reviewer_response)
        /\ conversation_history' = Append(conversation_history, reviewer_response)
        /\ results' = [results EXCEPT
             ![r].reviewer_output = reviewer_response.content,
             ![r].final_code = FinalCode(results[r].coder_outputs),
             ![r].conversation_history = "shared"]
        /\ llm_calls' = Append(llm_calls, Return(r, "Reviewer", text))
  /\ now' = now + 1
  /\ pc' = [pc EXCEPT ![r] = "done"]
  /\ UNCHANGED <<sent, saved_file, report, error_log, user_task, subtasks, i, message>>

\* the agent whose llm.invoke a run is blocked in
Invoked(r) ==
  CASE pc[r] = "planner_llm" -> "Planner"
    [] pc[r] = "coder_llm" -> "Coder"
    [] pc[r] = "debugger_llm" -> "Debugger"
    [] pc[r] = "reviewer_llm" -> "Reviewer"
    [] OTHER -> "none"

\* the failed call is made again instead of ending the run
GenerationFailsRetry(r) ==
  /\ Invoked(r) # "none"
  /\ llm_calls' = llm_calls \o
       <<Raise(r, Invoked(r)),
         Invoke(r, Invoked(r), UserPrompt(Invoked(r), message[r].content))>>
  /\ UNCHANGED <<sent, saved_file, report, now, conversation_history, message_history, error_log, pc,
                 results, user_task, subtasks, i, message>>

\* the agent catches the failure and answers with an error Message
GenerationFailsErrorReply(r) ==
  /\ Invoked(r) # "none"
  /\ llm_calls' = Append(llm_calls, Raise(r, Invoked(r)))
  /\ message_history' =
       log_message(message_history, Invoked(r),
                   Reply(Invoked(r), message[r], Plain("error"), now))
  /\ pc' = [pc EXCEPT ![r] = HandlerPc("GenerationError")]
  /\ error_log' = HandlerLog(r, "GenerationError")
  /\ UNCHANGED <<sent, saved_file, report, now, conversation_history, results, user_task,
                 subtasks, i, message>>

\* llm.invoke raises: no agent catches it, so it reaches lines 174-178
GenerationFails(r) ==
  /\ Invoked(r) # "none"
  /\ llm_calls' = Append(llm_calls, Raise(r, Invoked(r)))
  /\ pc' = [pc EXCEPT ![r] = HandlerPc("GenerationError")]
  /\ error_log' = HandlerLog(r, "GenerationError")
  /\ UNCHANGED <<sent, saved_file, report, now, conversation_history, message_history, results,
                 user_task, subtasks, i, message>>

----------------------------------------------------------------------------
(* The specification: the caller runs one pipeline after the other, as      *)
(* main.py does                                                            *)

Returned(r) == pc[r] \in {"done", "failed"}

\* the caller is not inside a call of run_development_pipeline
NoRunActive ==
  \A q \in DOMAIN pc : pc[q] \in {"idle", "done", "failed", "raised"}

\* an agent that keeps the request it works on in a field of the instance:
\* the language model answers the prompt the agent was invoked with last
GeneratedForLast(r) ==
  IF Invoked(r) = "none" THEN {}
  ELSE LET calls == SelectSeq(llm_calls,
                      LAMBDA e : e.ev = "invoke" /\ e.agent = Invoked(r))
       IN {GenText(Invoked(r), calls[Len(calls)].text, NumInvokes)}

\* what the language model answers the run's pending prompt with
Generated(r) ==
  IF Invoked(r) = "none" THEN {}
  ELSE {GenText(Invoked(r), UserPrompt(Invoked(r), message[r].content), NumInvokes)}

Next ==
  \E r \in Runs :
    \/ \E task \in Tasks :
         /\ NoRunActive
         /\ \A q \in Runs : q < r => pc[q] # "idle"
         /\ Start(r, task)
    \/ \E text \in PlannerReplies : PlannerReturn(r, text)
    \/ LoopRaise(r)
    \/ CoderInvoke(r)
    \/ \E text \in Generated(r) : CoderReturn(r, text)
    \/ \E text \in Generated(r) : DebuggerReturn(r, text)
    \/ ReviewInvoke(r)
    \/ \E text \in Generated(r) : ReviewerReturn(r, text)
    \/ GenerationFails(r)

Spec == Init /\ [][Next]_vars

\* a step of a run that was called: a generation call returns or fails, or
\* the orchestrator goes on to its next statement
Progress ==
  \E r \in Runs :
    \/ \E text \in PlannerReplies : PlannerReturn(r, text)
    \/ LoopRaise(r)
    \/ CoderInvoke(r)
    \/ \E text \in Generated(r) : CoderReturn(r, text)
    \/ \E text \in Generated(r) : DebuggerReturn(r, text)
    \/ ReviewInvoke(r)
    \/ \E text \in Generated(r) : ReviewerReturn(r, text)
    \/ GenerationFails(r)


----------------------------------------------------------------------------
(* The interactive session of main.py: one coordinator, made once, runs    *)
(* the tasks the user types one after the other                            *)

\* the number of tasks the user types in one session
MaxSessionRuns == 2

SessionRuns == 1..MaxSessionRuns

\* the Planner replies of a session: not JSON, a plan whose subtasks is
\* null, a plan of one subtask
SessionReplies ==
  {Plain("I cannot help"), Compact(PlanDoc(JNull)),
   Compact(PlanDoc(JList(DeclaredList(1))))}

InitSession ==
  /\ now = 0
  /\ conversation_history = << >>
  /\ message_history = [a \in Agents |-> << >>]
  /\ llm_calls = << >>
  /\ error_log = << >>
  /\ pc = [r \in SessionRuns |-> "idle"]
  /\ results = [r \in SessionRuns |-> None]
  /\ user_task = [r \in SessionRuns |-> ""]
  /\ subtasks = [r \in SessionRuns |-> JNull]
  /\ i = [r \in SessionRuns |-> 0]
  /\ message = [r \in SessionRuns |-> None]
  /\ sent = None
  /\ saved_file = None
  /\ report = None

NextSession ==
  \E r \in SessionRuns :
    \/ \E task \in Tasks :
         /\ NoRunActive
         /\ \A q \in SessionRuns : q < r => pc[q] # "idle"
         /\ Start(r, task)
    \/ \E text \in SessionReplies : PlannerReturn(r, text)
    \/ LoopRaise(r)
    \/ CoderInvoke(r)
    \/ \E text \in Generated(r) : CoderReturn(r, text)
    \/ \E text \in Generated(r) : DebuggerReturn(r, text)
    \/ ReviewInvoke(r)
    \/ \E text \in Generated(r) : ReviewerReturn(r, text)
    \/ GenerationFails(r)

SpecSession == InitSession /\ [][NextSession]_vars

----------------------------------------------------------------------------
(* Two threads of the caller call run_development_pipeline on one          *)
(* coordinator: the statements of the two runs interleave                  *)

\* the two runs
InterleavedRuns == {1, 2}

\* the task of each of the two runs
InterleavedTask(r) == IF r = 1 THEN "Build a calculator" ELSE "Do X"

InitInterleaved ==
  /\ now = 0
  /\ conversation_history = << >>
  /\ message_history = [a \in Agents |-> << >>]
  /\ llm_calls = << >>
  /\ error_log = << >>
  /\ pc = [r \in InterleavedRuns |-> "idle"]
  /\ results = [r \in InterleavedRuns |-> None]
  /\ user_task = [r \in InterleavedRuns |-> ""]
  /\ subtasks = [r \in InterleavedRuns |-> JNull]
  /\ i = [r \in InterleavedRuns |-> 0]
  /\ message = [r \in InterleavedRuns |-> None]
  /\ sent = None
  /\ saved_file = None
  /\ report = None

NextInterleaved ==
  \E r \in InterleavedRuns :
    \/ Start(r, InterleavedTask(r))
    \/ \E text \in SessionReplies : PlannerReturn(r, text)
    \/ LoopRaise(r)
    \/ CoderInvoke(r)
    \/ \E text \in Generated(r) : CoderReturn(r, text)
    \/ \E text \in Generated(r) : DebuggerReturn(r, text)
    \/ ReviewInvoke(r)
    \/ \E text \in Generated(r) : ReviewerReturn(r, text)
    \/ GenerationFails(r)

SpecInterleaved == InitInterleaved /\ [][NextInterleaved]_vars

----------------------------------------------------------------------------
(* The pipeline on plans whose subtasks declare dependencies *)

NextDependencies ==
  \E r \in Runs :
    \/ \E task \in Tasks :
         /\ NoRunActive
         /\ \A q \in Runs : q < r => pc[q] # "idle"
         /\ Start(r, task)
    \/ \E text \in DependencyReplies : PlannerReturn(r, text)
    \/ LoopRaise(r)
    \/ CoderInvoke(r)
    \/ \E text \in Generated(r) : CoderReturn(r, text)
    \/ \E text \in Generated(r) : DebuggerReturn(r, text)
    \/ ReviewInvoke(r)
    \/ \E text \in Generated(r) : ReviewerReturn(r, text)
    \/ GenerationFails(r)

SpecDependencies == Init /\ [][NextDependencies]_vars

----------------------------------------------------------------------------
(* run_single_task of main.py with an output file, and run_saved_task.py   *)
(* on that file                                                            *)

\* a str or None as the JSON encoder sees it
StrOrNone(value) == IF value = None THEN JNull ELSE JString(value)

\* main.py lines 167-172: the four fields that are saved
SaveData(res) ==
  Dict([original_task |-> JString(res.original_task),
        planner_output |-> StrOrNone(res.planner_output),
        final_code |-> StrOrNone(res.final_code),
        reviewer_output |-> StrOrNone(res.reviewer_output)])

\* how a call of run_saved_task.py ends
Displayed == [k |-> "displayed"]
Raised == [k |-> "raised"]

\* display_saved_results: json.loads(None) at line 55, the test
\* "```python" in None at line 76 and Text(None) at line 97 raise
display_saved_results(task_data) ==
  IF \E key \in {"planner_output", "final_code", "reviewer_output"} :
       key \in DOMAIN task_data.d /\ task_data.d[key] = JNull
    THEN Raised
    ELSE Displayed

\* main.py lines 166-176: the results of run r are written to output_file
SaveResults(r) ==
  /\ Returned(r)
  /\ saved_file = None
  /\ saved_file' = JsonDumps(SaveData(results[r]))
  /\ UNCHANGED <<now, conversation_history, message_history, llm_calls,
                 error_log, pc, results, user_task, subtasks, i, message,
                 sent, report>>

\* run_saved_task lines 185-188: load_saved_task, then display_saved_results
DisplaySaved ==
  /\ saved_file # None
  /\ report = None
  /\ LET task_data == JsonLoads(saved_file)
     IN report' = IF ~task_data.ok \/ task_data.value.t # "object"
                    THEN Raised
                    ELSE display_saved_results(task_data.value)
  /\ UNCHANGED <<now, conversation_history, message_history, llm_calls,
                 error_log, pc, results, user_task, subtasks, i, message,
                 sent, saved_file>>

NextSingleTask ==
  \/ \E task \in Tasks : Start(1, task)
  \/ \E text \in PlannerReplies : PlannerReturn(1, text)
  \/ LoopRaise(1)
  \/ CoderInvoke(1)
  \/ \E text \in Generated(1) : CoderReturn(1, text)
  \/ \E text \in Generated(1) : DebuggerReturn(1, text)
  \/ ReviewInvoke(1)
  \/ \E text \in Generated(1) : ReviewerReturn(1, text)
  \/ GenerationFails(1)
  \/ SaveResults(1)
  \/ DisplaySaved

SpecSingleTask == Init /\ [][NextSingleTask]_vars

\* run_single_task when every generation call ends and the orchestrator's
\* thread is scheduled; whether the caller calls the run at all, saves the
\* results or displays the file is left open
SpecSingleTaskFair == SpecSingleTask /\ WF_vars(Progress)

----------------------------------------------------------------------------
(* The agents called directly, as test_base_agent of test_system.py does:  *)
(* send_message from outside process_message, no pipeline running          *)

\* the number of direct send_message calls
MaxSends == 2

Recipients == {"TestRecipient", "Coder"}

Contents == {Plain("Test content")}

\* the metadata argument: left out, an empty dict, a dict with a key
MetadataArgs == {None, EmptyDict, [note |-> "n"]}

\* BaseAgent.send_message(recipient, content, metadata) on agent
SendMessage(agent, recipient, content, metadata) ==
  /\ now < MaxSends
  /\ LET returned == send_message(agent, recipient, content, metadata, now)
     IN /\ message_history' = log_message(message_history, agent, returned)
        /\ sent' = [agent |-> agent, recipient |-> recipient,
                    content |-> content, metadata |-> metadata,
                    message |-> returned]
  /\ now' = now + 1
  /\ UNCHANGED <<conversation_history, llm_calls, error_log, pc, results,
                 user_task, subtasks, i, message, saved_file, report>>

NextAgent ==
  \E agent \in Agents : \E recipient \in Recipients : \E content \in Contents :
    \E metadata \in MetadataArgs :
      SendMessage(agent, recipient, content, metadata)

SpecAgent == Init /\ [][NextAgent]_vars

----------------------------------------------------------------------------
(* What a test double of the generation capability would have recorded *)

\* the events of run r, in order
EventsOf(r) == SelectSeq(llm_calls, LAMBDA e : e.run = r)

\* the invocations of run r, in order
InvokesOf(r) == SelectSeq(llm_calls, LAMBDA e : e.run = r /\ e.ev = "invoke")

\* the prompts the given agent was invoked with in run r, in order
PromptsOf(r, agent) ==
  LET calls == SelectSeq(llm_calls,
                 LAMBDA e : e.run = r /\ e.ev = "invoke" /\ e.agent = agent)
  IN [n \in 1..Len(calls) |-> calls[n].text]

\* the agents whose generation call failed in run r
FailedCalls(r) == {e.agent : e \in {llm_calls[n] : n \in 1..Len(llm_calls)} \cap
                                   {Raise(r, a) : a \in Agents}}

\* the texts the Planner's language model returned in run r
PlannerTexts(r) ==
  {llm_calls[n].text : n \in {m \in 1..Len(llm_calls) :
      llm_calls[m].run = r /\ llm_calls[m].ev = "return"
      /\ llm_calls[m].agent = "Planner"}}

\* the prompt the Coder gets for the n-th subtask
CoderPromptFor(n, subtask) ==
  UserPrompt("Coder",
    SubtaskRequest(n, Str(Get(subtask, "description",
                             Get(subtask, "title", JString(""))))))

\* the plan of run r is a list of subtask objects
PlanOfSubtasks(r) ==
  /\ subtasks[r].t = "list"
  /\ \A j \in 1..Len(subtasks[r].items) : subtasks[r].items[j].t = "object"

----------------------------------------------------------------------------
(* C1: when a run has returned, none of its generation calls failed and    *)
(* its plan is a list of K subtasks, the Coder was invoked exactly K       *)
(* times and the Debugger exactly K times, the j-th invocation for the     *)
(* j-th subtask, and coder_outputs and debugger_outputs have K entries,    *)
(* the j-th holding the j-th subtask and the reply to its invocation.      *)
C1_WorkerCriticPerSubtask ==
  \A r \in Runs :
    (Returned(r) /\ FailedCalls(r) = {} /\ PlanOfSubtasks(r)) =>
      LET K == Len(subtasks[r].items)
          coder == PromptsOf(r, "Coder")
          debugger == PromptsOf(r, "Debugger")
          res == results[r]
      IN /\ Len(coder) = K
         /\ Len(debugger) = K
         /\ Len(res.coder_outputs) = K
         /\ Len(res.debugger_outputs) = K
         /\ \A j \in 1..K :
              /\ coder[j] = CoderPromptFor(j, subtasks[r].items[j])
              /\ res.coder_outputs[j].subtask = subtasks[r].items[j]
              /\ res.coder_outputs[j].code.k = "gen"
              /\ res.coder_outputs[j].code.re = coder[j]
              /\ debugger[j] = UserPrompt("Debugger", res.coder_outputs[j].code)
              /\ res.debugger_outputs[j].subtask = subtasks[r].items[j]
              /\ res.debugger_outputs[j].feedback.k = "gen"
              /\ res.debugger_outputs[j].feedback.re = debugger[j]

\* a run returned after all its calls succeeded on a plan of two subtasks
C1_Witness ==
  \E r \in Runs :
    /\ pc[r] = "done"
    /\ FailedCalls(r) = {}
    /\ PlanOfSubtasks(r)
    /\ Len(subtasks[r].items) = 2
    /\ Len(results[r].coder_outputs) = 2

----------------------------------------------------------------------------
\* run r returned because the generation call of the given agent failed
\* while the loop was at subtask n (1-indexed)
FailedOnSubtask(r, agent, n) ==
  /\ pc[r] = "failed"
  /\ agent \in FailedCalls(r)
  /\ i[r] + 1 = n

\* the first n entries of both output lists belong to the first n subtasks
CompletedResults(r, n) ==
  /\ Len(results[r].coder_outputs) >= n
  /\ Len(results[r].debugger_outputs) >= n
  /\ \A j \in 1..n :
       /\ results[r].coder_outputs[j].subtask = subtasks[r].items[j]
       /\ results[r].debugger_outputs[j].subtask = subtasks[r].items[j]
       /\ results[r].debugger_outputs[j].feedback.re =
            UserPrompt("Debugger", results[r].coder_outputs[j].code)

(* C2 as claimed: when the Coder or the Debugger call fails on subtask n,  *)
(* the returned bundle records exactly n-1 coder outputs and exactly n-1   *)
(* debugger outputs, and no reviewer output.                               *)
C2_Original ==
  \A r \in Runs : \A n \in 1..(MaxSubtasks + 1) :
    (FailedOnSubtask(r, "Coder", n) \/ FailedOnSubtask(r, "Debugger", n)) =>
      /\ Len(results[r].coder_outputs) = n - 1
      /\ Len(results[r].debugger_outputs) = n - 1
      /\ results[r].reviewer_output = None

(* C2 as amended: when the Coder call fails on subtask n the bundle holds  *)
(* n-1 coder outputs and n-1 debugger outputs; when the Debugger call      *)
(* fails on subtask n it holds n coder outputs (the code of subtask n was  *)
(* recorded before the Debugger was called) and n-1 debugger outputs.  In  *)
(* both cases the first n-1 entries of both lists are the completed        *)
(* results of subtasks 1..n-1, reviewer_output and final_code are None and *)
(* the Reviewer was not invoked.                                           *)
C2_PartialResults ==
  \A r \in Runs : \A n \in 1..(MaxSubtasks + 1) :
    /\ FailedOnSubtask(r, "Coder", n) =>
         /\ Len(results[r].coder_outputs) = n - 1
         /\ Len(results[r].debugger_outputs) = n - 1
    /\ FailedOnSubtask(r, "Debugger", n) =>
         /\ Len(results[r].coder_outputs) = n
         /\ Len(results[r].debugger_outputs) = n - 1
         /\ results[r].coder_outputs[n].subtask = subtasks[r].items[n]
    /\ (FailedOnSubtask(r, "Coder", n) \/ FailedOnSubtask(r, "Debugger", n)) =>
         /\ CompletedResults(r, n - 1)
         /\ results[r].reviewer_output = None
         /\ results[r].final_code = None
         /\ PromptsOf(r, "Reviewer") = << >>

\* the Debugger call failed on the second subtask
C2_Witness ==
  \E r \in Runs :
    /\ FailedOnSubtask(r, "Debugger", 2)
    /\ Len(results[r].coder_outputs) = 2
    /\ Len(results[r].debugger_outputs) = 1

----------------------------------------------------------------------------
(* C3: once a generation call of a run has failed, the run makes no        *)
(* further generation call: the event of the failure is the last event of  *)
(* that run, whichever agent failed.                                       *)
C3_NoCallAfterFailure ==
  \A r \in Runs :
    LET events == EventsOf(r)
    IN \A n \in 1..Len(events) : events[n].ev = "raise" => n = Len(events)

\* the Coder failed on the first of two subtasks and the run has returned
C3_Witness ==
  \E r \in Runs :
    /\ FailedOnSubtask(r, "Coder", 1)
    /\ PlanOfSubtasks(r)
    /\ Len(subtasks[r].items) = 2
    /\ Len(PromptsOf(r, "Coder")) = 1
    /\ PromptsOf(r, "Debugger") = << >>
    /\ PromptsOf(r, "Reviewer") = << >>

----------------------------------------------------------------------------
\* the reply is one of those the claim names as failing structured parsing:
\* a text that is not JSON, or a JSON object without the subtasks key
FailsStructuredParsing(text) ==
  \/ text.k = "plain"
  \/ /\ JsonLoads(text).ok
     /\ JsonLoads(text).value.t = "object"
     /\ "subtasks" \notin DOMAIN JsonLoads(text).value.d

(* C4 as claimed: when the Planner's reply is not JSON or is a JSON object *)
(* without the subtasks key, the subtasks the run works on are exactly one *)
(* subtask with id "task_1" and the user's task as its description.        *)
C4_Original ==
  \A r \in Runs : \A text \in PlannerTexts(r) :
    FailsStructuredParsing(text) =>
      /\ subtasks[r].t = "list"
      /\ Len(subtasks[r].items) = 1
      /\ subtasks[r].items[1].t = "object"
      /\ Get(subtasks[r].items[1], "id", JNull) = JString("task_1")
      /\ Get(subtasks[r].items[1], "description", JNull)
           = JString(user_task[r])

(* C5 as claimed: in no run is the Reviewer invoked before the Coder has   *)
(* been invoked at least once.                                             *)
C5_Original ==
  \A r \in Runs :
    PromptsOf(r, "Reviewer") # << >> => PromptsOf(r, "Coder") # << >>

(* C6 as claimed: a run ends in the failed outcome only when one of its    *)
(* generation calls failed, never because of the Planner's reply.          *)
C6_Original ==
  \A r \in Runs : pc[r] = "failed" => FailedCalls(r) # {}

----------------------------------------------------------------------------
(* C7: no exception raised inside a run reaches the caller, and every      *)
(* returned bundle has as original_task the task the run was called with.  *)
C7_NeverPropagates ==
  \A r \in Runs :
    /\ pc[r] # "raised"
    /\ Returned(r) => results[r].original_task = user_task[r]

\* a run whose Reviewer call failed has returned its bundle
C7_Witness ==
  \E r \in Runs :
    /\ pc[r] = "failed"
    /\ "Reviewer" \in FailedCalls(r)
    /\ [run |-> r, exc |-> "GenerationError"] \in
         {error_log[n] : n \in 1..Len(error_log)}
    /\ results[r].original_task = user_task[r]

----------------------------------------------------------------------------
(* C8: when the Planner's generation call fails, the run has returned      *)
(* failed, its bundle holds the task only (planner_output, reviewer_output *)
(* and final_code None, coder_outputs and debugger_outputs empty), and     *)
(* the Planner's failed call is the only generation call of the run.       *)
C8_PlannerFailure ==
  \A r \in Runs :
    "Planner" \in FailedCalls(r) =>
      /\ pc[r] = "failed"
      /\ results[r].original_task = user_task[r]
      /\ results[r].planner_output = None
      /\ results[r].reviewer_output = None
      /\ results[r].final_code = None
      /\ results[r].coder_outputs = << >>
      /\ results[r].debugger_outputs = << >>
      /\ Len(InvokesOf(r)) = 1
      /\ PromptsOf(r, "Coder") = << >>
      /\ PromptsOf(r, "Debugger") = << >>
      /\ PromptsOf(r, "Reviewer") = << >>

\* the Planner's call failed
C8_Witness ==
  \E r \in Runs :
    /\ "Planner" \in FailedCalls(r)
    /\ pc[r] = "failed"
    /\ user_task[r] \in Tasks

----------------------------------------------------------------------------
\* the agent of the n-th invocation of a run over K subtasks
ExpectedAgent(n, K) ==
  IF n = 1 THEN "Planner"
  ELSE IF n = 2 * K + 2 THEN "Reviewer"
  ELSE IF n > 2 * K + 2 THEN "none"
  ELSE IF n % 2 = 0 THEN "Coder"
  ELSE "Debugger"

(* C9: the invocations of a run are, in order, the Planner, then for each  *)
(* subtask j the Coder on subtask j followed by the Debugger on the code   *)
(* of subtask j, then the Reviewer; every call returns before the next is  *)
(* made; a run that is done made exactly these 2K+2 calls.                 *)
C9_CallOrder ==
  \A r \in Runs :
    LET calls == InvokesOf(r)
        events == EventsOf(r)
        K == IF subtasks[r].t = "list" THEN Len(subtasks[r].items) ELSE 0
    IN /\ \A n \in 1..Len(calls) :
            /\ calls[n].agent = ExpectedAgent(n, K)
            /\ calls[n].agent = "Coder" =>
                 calls[n].text = CoderPromptFor(n \div 2, subtasks[r].items[n \div 2])
            /\ calls[n].agent = "Debugger" =>
                 calls[n].text =
                   UserPrompt("Debugger", results[r].coder_outputs[n \div 2].code)
       /\ \A n \in 1..Len(events) :
            /\ n % 2 = 1 => events[n].ev = "invoke"
            /\ n % 2 = 0 => /\ events[n].ev # "invoke"
                            /\ events[n].agent = events[n - 1].agent
       /\ pc[r] = "done" =>
            /\ Len(calls) = 2 * K + 2
            /\ \A n \in 1..Len(events) : events[n].ev # "raise"

\* a run over two subtasks is done
C9_Witness ==
  \E r \in Runs :
    /\ pc[r] = "done"
    /\ Len(subtasks[r].items) = 2
    /\ Len(InvokesOf(r)) = 6
    /\ InvokesOf(r)[5].agent = "Debugger"

----------------------------------------------------------------------------
(* C10: when the Planner's reply is not JSON and no generation call of the *)
(* run fails, the run ends done with the Coder, the Debugger and the       *)
(* Reviewer invoked exactly once each, the Coder's request being subtask 1 *)
(* with the user's task as description, and reviewer_output is not None.   *)
C10_FallbackRunCompletes ==
  \A r \in Runs : \A text \in PlannerTexts(r) :
    (text.k = "plain" /\ Returned(r) /\ FailedCalls(r) = {}) =>
      /\ pc[r] = "done"
      /\ PromptsOf(r, "Coder") =
           <<UserPrompt("Coder", SubtaskRequest(1, user_task[r]))>>
      /\ Len(PromptsOf(r, "Debugger")) = 1
      /\ Len(PromptsOf(r, "Reviewer")) = 1
      /\ results[r].reviewer_output # None
      /\ results[r].reviewer_output.k = "gen"

\* a run on the reply "I cannot help" is done
C10_Witness ==
  \E r \in Runs :
    /\ Plain("I cannot help") \in PlannerTexts(r)
    /\ user_task[r] = "Do X"
    /\ pc[r] = "done"

----------------------------------------------------------------------------
\* the texts of a plan with the subtasks l that the language model may write
PlanTexts(l) == {Compact(PlanDoc(JList(l))), JsonDumps(PlanDoc(JList(l)))}

\* for every K, the texts of the well-formed plan of K subtasks and the text
\* json.dumps(plan_data, indent=2) gives for it
WellFormedPlans ==
  [K \in 1..MaxSubtasks |->
     [texts |-> PlanTexts(DeclaredList(K)),
      canonical |-> JsonDumps(PlanDoc(JList(DeclaredList(K))))]]

(* C11: when the Planner's language model replies with a well-formed plan  *)
(* of K >= 1 subtasks, the subtasks the run iterates are exactly those K   *)
(* subtasks in the declared order, each with its id, title and            *)
(* description, and the recorded plan is the indented text of that plan:   *)
(* the Planner's parse and re-serialise followed by the orchestrator's     *)
(* parse changes nothing in the subtask list.                              *)
C11_PlanRoundTrip ==
  \A r \in Runs : \A text \in PlannerTexts(r) : \A K \in 1..MaxSubtasks :
    text \in WellFormedPlans[K].texts =>
      /\ subtasks[r].t = "list"
      /\ Len(subtasks[r].items) = K
      /\ \A j \in 1..K :
           /\ subtasks[r].items[j].t = "object"
           /\ Get(subtasks[r].items[j], "id", JNull)
                = JString("task_" \o ToString(j))
           /\ Get(subtasks[r].items[j], "title", JNull)
                = JString("title_" \o ToString(j))
           /\ Get(subtasks[r].items[j], "description", JNull)
                = JString("description_" \o ToString(j))
      /\ subtasks[r] = JList(DeclaredList(K))
      /\ results[r].planner_output = WellFormedPlans[K].canonical

\* a run on a compact plan of MaxSubtasks subtasks has iterated all of them,
\* and the recorded plan is another text than the reply
C11_Witness ==
  \E r \in Runs :
    /\ pc[r] = "done"
    /\ PlannerTexts(r) \subseteq WellFormedPlans[MaxSubtasks].texts
    /\ Len(subtasks[r].items) = MaxSubtasks
    /\ Len(results[r].coder_outputs) = MaxSubtasks
    /\ results[r].planner_output \notin PlannerTexts(r)

----------------------------------------------------------------------------
\* the texts the Coder's language model returned in run r, in call order
CoderTexts(r) ==
  LET returns == SelectSeq(EventsOf(r),
                   LAMBDA e : e.ev = "return" /\ e.agent = "Coder")
  IN [j \in 1..Len(returns) |-> returns[j].text]

(* C12 as claimed: in every returned bundle that holds completed subtask   *)
(* results, final_code is the coder outputs' code joined in subtask order  *)
(* with a blank line between them.                                         *)
C12_Original ==
  \A r \in Runs :
    (Returned(r) /\ Len(results[r].coder_outputs) >= 1) =>
      results[r].final_code = Join("\n\n", CoderTexts(r))

(* C12: in the bundle of every run that completed, final_code is the text  *)
(* of the Coder's replies of that run joined in subtask order with a blank *)
(* line between them, one reply per subtask; in the bundle of every run    *)
(* that failed, final_code is None, whatever subtask results it holds.     *)
C12_FinalCode ==
  \A r \in Runs :
    /\ pc[r] = "done" =>
         /\ results[r].final_code = Join("\n\n", CoderTexts(r))
         /\ Len(CoderTexts(r)) = Len(subtasks[r].items)
         /\ \A j \in 1..Len(CoderTexts(r)) :
              results[r].coder_outputs[j].code = CoderTexts(r)[j]
    /\ pc[r] = "failed" => results[r].final_code = None

\* a completed run joined the code of MaxSubtasks subtasks
C12_Witness ==
  \E r \in Runs :
    /\ pc[r] = "done"
    /\ Len(results[r].coder_outputs) = MaxSubtasks
    /\ results[r].final_code.k = "join"
    /\ Len(results[r].final_code.parts) = MaxSubtasks

----------------------------------------------------------------------------
(* C13 as claimed: in every returned bundle reviewer_output is set exactly *)
(* when final_code is set, and both are set exactly when no generation     *)
(* call of the run failed.                                                 *)
C13_Original ==
  \A r \in Runs :
    Returned(r) =>
      /\ results[r].reviewer_output # None <=> results[r].final_code # None
      /\ results[r].reviewer_output # None <=> FailedCalls(r) = {}

----------------------------------------------------------------------------
\* the bundle of run r as its caller reads it
Bundle(r) == [results[r] EXCEPT !.conversation_history = BundleHistory(r)]

\* the agents' replies of run r: who replied and with what content
RepliesOf(r) ==
  {[sender |-> e.agent,
    content |-> IF e.agent = "Planner" THEN PlannerContent(e.text) ELSE e.text] :
     e \in {llm_calls[n] : n \in {m \in 1..Len(llm_calls) :
             llm_calls[m].run = r /\ llm_calls[m].ev = "return"}}}

(* C14 as claimed: the conversation_history of the bundle a run returned   *)
(* holds only Messages that the agents sent during that run, also when the *)
(* coordinator has executed other runs.                                    *)
C14_Original ==
  \A r \in DOMAIN pc :
    Returned(r) =>
      \A n \in 1..Len(BundleHistory(r)) :
        [sender |-> BundleHistory(r)[n].sender,
         content |-> BundleHistory(r)[n].content] \in RepliesOf(r)

(* C15 as claimed: once a run has returned its bundle, no step of the      *)
(* coordinator changes any field of that bundle, conversation_history      *)
(* included.                                                               *)
C15_Original ==
  [][\A r \in DOMAIN pc : Returned(r) => Bundle(r)' = Bundle(r)]_vars

----------------------------------------------------------------------------
(* C16 as claimed: when a run fails after an agent has replied, the        *)
(* conversation_history of the returned bundle holds every Message the     *)
(* run appended to the coordinator's conversation_history.                 *)
C16_Original ==
  \A r \in DOMAIN pc :
    (pc[r] = "failed" /\ RepliesOf(r) # {}) =>
      \A n \in 1..Len(conversation_history) :
        [sender |-> conversation_history[n].sender,
         content |-> conversation_history[n].content] \in RepliesOf(r)
          => \E m \in 1..Len(BundleHistory(r)) :
               BundleHistory(r)[m] = conversation_history[n]

----------------------------------------------------------------------------
\* the generation calls that returned, in order
Returns == SelectSeq(llm_calls, LAMBDA e : e.ev = "return")

(* C17: every reply an agent's process_message produced has the agent's    *)
(* name as sender, the sender of the incoming Message as recipient, and    *)
(* the agent's task type in its metadata: plan for the Planner, code for   *)
(* the Coder, debug for the Debugger, review for the Reviewer.  The replies *)
(* are the Messages of conversation_history, one per generation call that  *)
(* returned; each stands in its agent's message_history right after the    *)
(* incoming Message it answers.                                            *)
C17_ReplyAddressing ==
  LET tag == [Planner |-> "plan", Coder |-> "code", Debugger |-> "debug",
              Reviewer |-> "review"]
  IN /\ Len(conversation_history) = Len(Returns)
     /\ \A n \in 1..Len(conversation_history) :
          LET reply == conversation_history[n]
              history == message_history[Returns[n].agent]
          IN /\ reply.sender = Returns[n].agent
             /\ reply.metadata.task_type = tag[reply.sender]
             /\ \E p \in 2..Len(history) :
                  /\ history[p] = reply
                  /\ history[p - 1].recipient = reply.sender
                  /\ reply.recipient = history[p - 1].sender
                  /\ history[p - 1].sender # reply.sender

\* all four agents have replied in one completed run of MaxSubtasks subtasks
C17_Witness ==
  /\ {conversation_history[n].sender : n \in 1..Len(conversation_history)} = Agents
  /\ Len(conversation_history) = 2 * MaxSubtasks + 2
  /\ \E r \in Runs : pc[r] = "done"

----------------------------------------------------------------------------
(* C18: a call send_message(recipient, content, metadata) on an agent      *)
(* returns a Message whose sender is the agent's name, whose recipient and *)
(* content are the arguments, and whose metadata is the empty dict when    *)
(* no metadata was passed and the passed dict otherwise; the call appends  *)
(* that Message, and nothing else, to the agent's message_history and      *)
(* leaves every other agent's message_history as it was.                   *)
C18_SendMessage ==
  [][sent' # sent =>
       /\ sent'.message.sender = sent'.agent
       /\ sent'.message.recipient = sent'.recipient
       /\ sent'.message.content = sent'.content
       /\ sent'.metadata = None => sent'.message.metadata = EmptyDict
       /\ sent'.metadata # None => sent'.message.metadata = sent'.metadata
       /\ Len(message_history'[sent'.agent])
            = Len(message_history[sent'.agent]) + 1
       /\ message_history' =
            [message_history EXCEPT ![sent'.agent] = Append(@, sent'.message)]
       /\ conversation_history' = conversation_history]_vars

\* an agent sent MaxSends Messages, the last one without metadata
C18_Witness ==
  /\ sent # None
  /\ sent.metadata = None
  /\ sent.message.metadata = EmptyDict
  /\ Len(message_history[sent.agent]) = MaxSends
  /\ message_history[sent.agent][MaxSends] = sent.message

----------------------------------------------------------------------------
\* the number of generation events of kind ev at agent
CountOf(agent, ev) ==
  Len(SelectSeq(llm_calls, LAMBDA e : e.agent = agent /\ e.ev = ev))

(* C19: a generation call that fails produces no Message and is not made   *)
(* again.  Every process_message call logs its incoming Message and        *)
(* invokes the language model once; the agent's message_history holds one  *)
(* incoming Message per invocation and one reply per invocation that       *)
(* returned, so a failed invocation leaves only the incoming Message;      *)
(* conversation_history holds one Message per invocation that returned;    *)
(* and a failure follows its invocation directly and is the last           *)
(* generation event of its run.                                            *)
C19_FailureSilent ==
  /\ Len(conversation_history) = Len(Returns)
  /\ \A a \in Agents :
       LET incoming == SelectSeq(message_history[a], LAMBDA m : m.sender # a)
           replies == SelectSeq(message_history[a], LAMBDA m : m.sender = a)
       IN /\ Len(incoming) = CountOf(a, "invoke")
          /\ Len(replies) = CountOf(a, "return")
          /\ CountOf(a, "invoke") - CountOf(a, "return") - CountOf(a, "raise")
               \in {0, 1}
  /\ \A n \in 1..Len(llm_calls) :
       llm_calls[n].ev = "raise" =>
         /\ n > 1
         /\ llm_calls[n - 1].ev = "invoke"
         /\ llm_calls[n - 1].run = llm_calls[n].run
         /\ llm_calls[n - 1].agent = llm_calls[n].agent
         /\ \A m \in (n + 1)..Len(llm_calls) : llm_calls[m].run # llm_calls[n].run

\* the Debugger's call failed on the last subtask: its history ends with the
\* incoming Message, and the run has returned
C19_Witness ==
  \E r \in Runs :
    /\ pc[r] = "failed"
    /\ FailedCalls(r) = {"Debugger"}
    /\ Len(results[r].coder_outputs) = MaxSubtasks
    /\ Len(message_history["Debugger"]) = 2 * MaxSubtasks - 1
    /\ message_history["Debugger"][2 * MaxSubtasks - 1].sender = "Coder"
    /\ Len(conversation_history) = 2 * MaxSubtasks

----------------------------------------------------------------------------
\* the stage of the pipeline a run is in
Stage(r) ==
  CASE pc[r] = "idle" -> "START"
    [] pc[r] = "planner_llm" -> "PLANNING"
    [] pc[r] \in {"loop", "coder_llm", "debugger_llm"} -> "CODING_DEBUGGING"
    [] pc[r] = "reviewer_llm" -> "REVIEW"
    [] pc[r] = "done" -> "DONE"
    [] OTHER -> "FAILED"

\* the order of the stages in lines 64-178
StageSteps ==
  {<<"START", "PLANNING">>, <<"PLANNING", "CODING_DEBUGGING">>,
   <<"CODING_DEBUGGING", "REVIEW">>, <<"REVIEW", "DONE">>,
   <<"PLANNING", "FAILED">>, <<"CODING_DEBUGGING", "FAILED">>,
   <<"REVIEW", "FAILED">>}

(* C20: every step of a run either keeps its stage or moves it one stage   *)
(* forward along START, PLANNING, CODING_DEBUGGING, REVIEW, DONE, or from  *)
(* PLANNING, CODING_DEBUGGING or REVIEW to FAILED; so no stage is entered  *)
(* twice and DONE and FAILED are never left.  The Planner is invoked at    *)
(* most once per run, as the run's first invocation, and the Reviewer at   *)
(* most once.                                                              *)
C20_StageOrder ==
  [][\A r \in Runs :
       /\ Stage(r)' # Stage(r) => <<Stage(r), Stage(r)'>> \in StageSteps
       /\ Len(PromptsOf(r, "Planner"))' <= 1
       /\ Len(PromptsOf(r, "Reviewer"))' <= 1
       /\ Stage(r)' # "START" =>
            /\ Len(PromptsOf(r, "Planner"))' = 1
            /\ InvokesOf(r)'[1].agent = "Planner"]_vars

\* a run went through every stage up to REVIEW and failed there
C20_Witness ==
  \E r \in Runs :
    /\ Stage(r) = "FAILED"
    /\ FailedCalls(r) = {"Reviewer"}
    /\ Len(PromptsOf(r, "Planner")) = 1
    /\ Len(PromptsOf(r, "Coder")) = MaxSubtasks
    /\ Len(PromptsOf(r, "Debugger")) = MaxSubtasks
    /\ Len(PromptsOf(r, "Reviewer")) = 1

----------------------------------------------------------------------------
(* C21: whatever dependencies the subtasks of a plan declare - on an id no *)
(* subtask has, on a later subtask, in a cycle, between subtasks with the  *)
(* same id - the Coder is called for the subtasks in the order the plan    *)
(* declares them; a run fails only when a generation call failed, and a    *)
(* run that completed has a coder output for every subtask, in that order. *)
C21_DeclaredOrder ==
  \A r \in Runs : \A plan \in DependencyPlans :
    plan.text \in PlannerTexts(r) =>
      /\ subtasks[r] = JList(plan.list)
      /\ Len(PromptsOf(r, "Coder")) <= Len(plan.list)
      /\ \A j \in 1..Len(PromptsOf(r, "Coder")) :
           PromptsOf(r, "Coder")[j] = CoderPromptFor(j, plan.list[j])
      /\ pc[r] = "failed" => FailedCalls(r) # {}
      /\ pc[r] = "done" =>
           /\ Len(PromptsOf(r, "Coder")) = Len(plan.list)
           /\ \A j \in 1..Len(plan.list) :
                results[r].coder_outputs[j].subtask = plan.list[j]

\* a run on a plan of MaxSubtasks subtasks that depend on each other in a
\* cycle has completed
C21_Witness ==
  \E r \in Runs :
    /\ pc[r] = "done"
    /\ Compact(PlanDoc(JList(DependentList("cycle", MaxSubtasks))))
         \in PlannerTexts(r)
    /\ Len(results[r].coder_outputs) = MaxSubtasks

----------------------------------------------------------------------------
(* C22: within a run at most one generation call is in flight.  The        *)
(* generation events of a run alternate: an invocation, then the return or *)
(* the failure of that same agent's call, then the next invocation.        *)
C22_OneCallInFlight ==
  \A r \in Runs :
    LET events == EventsOf(r)
    IN \A n \in 1..Len(events) :
         IF n % 2 = 1
           THEN events[n].ev = "invoke"
           ELSE /\ events[n].ev \in {"return", "raise"}
                /\ events[n].agent = events[n - 1].agent

\* a completed run of MaxSubtasks subtasks made 2 * MaxSubtasks + 2 calls,
\* each returned before the next
C22_Witness ==
  \E r \in Runs :
    /\ pc[r] = "done"
    /\ Len(InvokesOf(r)) = 2 * MaxSubtasks + 2
    /\ Len(EventsOf(r)) = 2 * (2 * MaxSubtasks + 2)

----------------------------------------------------------------------------
\* the stage in which agent is called
StageOfAgent(agent) ==
  CASE agent = "Planner" -> "PLANNING"
    [] agent \in {"Coder", "Debugger"} -> "CODING_DEBUGGING"
    [] agent = "Reviewer" -> "REVIEW"

\* record is a report of the generation failure of run r: it names the
\* stage of the failed call and, for the Coder and the Debugger, the id of
\* the subtask the loop was at
ReportsFailure(record, r) ==
  \A agent \in FailedCalls(r) :
    /\ "stage" \in DOMAIN record
    /\ record.stage = StageOfAgent(agent)
    /\ agent \in {"Coder", "Debugger"} =>
         /\ "subtask" \in DOMAIN record
         /\ record.subtask = Get(CurrentSubtask(r), "id", JNull)

(* C23 as claimed: when a generation call of a run failed, what the run    *)
(* logged as its error, or the bundle it returned, names the stage of the  *)
(* failed call and, for a Coder or Debugger call, the id of the subtask.   *)
C23_Original ==
  \A r \in Runs :
    (pc[r] = "failed" /\ FailedCalls(r) # {}) =>
      \/ \E n \in 1..Len(error_log) :
           error_log[n].run = r /\ ReportsFailure(error_log[n], r)
      \/ ReportsFailure(Bundle(r), r)

----------------------------------------------------------------------------
(* C24 as claimed: whatever bundle a run returned, the file saved from it  *)
(* holds the four fields of the bundle, and display_saved_results on that  *)
(* file ends without an error.                                             *)
C24_Original ==
  /\ saved_file # None =>
       /\ JsonLoads(saved_file).ok
       /\ JsonLoads(saved_file).value = SaveData(results[1])
  /\ report # None => report = Displayed

----------------------------------------------------------------------------
\* the Messages agent received from sender, in the order they were logged
ReceivedFrom(agent, sender) ==
  SelectSeq(message_history[agent],
            LAMBDA m : m.sender = sender /\ m.recipient = agent)

----------------------------------------------------------------------------
\* the list s is the beginning of the list t
IsPrefix(s, t) == Len(s) <= Len(t) /\ SubSeq(t, 1, Len(s)) = s

(* C26: no step of a run, whether it records, fails or returns, changes or *)
(* removes an entry that coder_outputs or debugger_outputs already holds:  *)
(* the lists a run has recorded are, at every step, the beginning of the   *)
(* lists after the step, and so of the lists in the bundle it returns.     *)
C26_OutputsOnlyGrow ==
  [][\A r \in Runs :
       results[r] # None =>
         /\ results'[r] # None
         /\ IsPrefix(results[r].coder_outputs, results'[r].coder_outputs)
         /\ IsPrefix(results[r].debugger_outputs, results'[r].debugger_outputs)]_vars

\* a run failed after it had recorded the code of every subtask and the
\* feedback of all but the last
C26_Witness ==
  \E r \in Runs :
    /\ pc[r] = "failed"
    /\ Len(results[r].coder_outputs) = MaxSubtasks
    /\ Len(results[r].debugger_outputs) = MaxSubtasks - 1
    /\ MaxSubtasks > 1

----------------------------------------------------------------------------
\* the texts the Debugger's language model returned in run r, in call order
DebuggerTexts(r) ==
  LET returns == SelectSeq(EventsOf(r),
                   LAMBDA e : e.ev = "return" /\ e.agent = "Debugger")
  IN [j \in 1..Len(returns) |-> returns[j].text]

(* C27: a run asks the Reviewer at most once, and what it asks holds the   *)
(* task of the run, the plan text in planner_output and, for every         *)
(* subtask j from 1 to the number K of subtasks of the plan, the j-th      *)
(* reply of the Coder followed by the j-th reply of the Debugger, in the   *)
(* order of the subtasks and nothing else.                                 *)
C27_ReviewRequest ==
  \A r \in Runs :
    LET prompts == PromptsOf(r, "Reviewer")
    IN /\ Len(prompts) <= 1
       /\ Len(prompts) = 1 =>
            /\ subtasks[r].t = "list"
            /\ Len(CoderTexts(r)) = Len(subtasks[r].items)
            /\ Len(DebuggerTexts(r)) = Len(subtasks[r].items)
            /\ prompts[1] =
                 UserPrompt("Reviewer",
                   [k |-> "review",
                    task |-> user_task[r],
                    plan |-> results[r].planner_output,
                    parts |-> [j \in 1..Len(subtasks[r].items) |->
                                 [n |-> j,
                                  code |-> CoderTexts(r)[j],
                                  feedback |-> DebuggerTexts(r)[j]]]])

\* the Reviewer was asked about a plan of MaxSubtasks subtasks whose
\* feedbacks differ
C27_Witness ==
  \E r \in Runs :
    /\ Len(PromptsOf(r, "Reviewer")) = 1
    /\ Len(PromptsOf(r, "Reviewer")[1].content.parts) = MaxSubtasks
    /\ MaxSubtasks > 1
    /\ DebuggerTexts(r)[1] # DebuggerTexts(r)[MaxSubtasks]

----------------------------------------------------------------------------
(* C28: a step never changes a Message that a message_history or the       *)
(* conversation_history already holds: the lists only grow at their end.   *)
(* When the process_message of an agent ends, by a reply or by a failed    *)
(* generation call, the Message it received is in the agent's history with *)
(* the sender, recipient, content, timestamp and metadata it came with,    *)
(* and the reply is another Message, logged after it.                      *)
C28_MessagesNeverAltered ==
  [][/\ \A agent \in Agents :
          IsPrefix(message_history[agent], message_history'[agent])
     /\ IsPrefix(conversation_history, conversation_history')
     /\ \A r \in Runs :
          (Invoked(r) # "none" /\ pc'[r] # pc[r]) =>
            LET history == message_history[Invoked(r)]
                after == message_history'[Invoked(r)]
                n == Len(history)
            IN /\ history[n] = message[r]
               /\ after[n] = message[r]
               /\ \A k \in (n + 1)..Len(after) :
                    /\ after[k] # message[r]
                    /\ after[k].sender = Invoked(r)]_vars

\* the Debugger replied to a first Message and its generation call failed
\* on a second: its history holds both Messages as they came
C28_Witness ==
  \E r \in Runs :
    /\ pc[r] = "failed"
    /\ FailedCalls(r) = {"Debugger"}
    /\ Len(message_history["Debugger"]) = 3
    /\ message_history["Debugger"][3] = message[r]
    /\ message_history["Debugger"][1].sender = "Coder"
    /\ message_history["Debugger"][2].sender = "Debugger"

----------------------------------------------------------------------------
\* the number of subtasks of the plan of run r: none before the plan is
\* parsed or when its subtasks are not a list
NumSubtasks(r) ==
  IF subtasks[r].t = "list" THEN Len(subtasks[r].items) ELSE 0

(* C29: when every generation call returns or fails, every run that was    *)
(* called returns a bundle, and at no time has a run made more than        *)
(* 2 * K + 2 generation calls, K the number of subtasks of its plan.       *)
C29_RunReturns ==
  /\ [](\A r \in Runs : Len(InvokesOf(r)) <= 2 * NumSubtasks(r) + 2)
  /\ \A r \in Runs : (pc[r] # "idle") ~> Returned(r)

\* a run on a plan of MaxSubtasks subtasks has returned after
\* 2 * MaxSubtasks + 2 generation calls
C29_Witness ==
  \E r \in Runs :
    /\ Returned(r)
    /\ NumSubtasks(r) = MaxSubtasks
    /\ Len(InvokesOf(r)) = 2 * NumSubtasks(r) + 2

----------------------------------------------------------------------------
(* C30: at every point of a run debugger_outputs is as long as             *)
(* coder_outputs or one entry shorter; the two are equally long at the     *)
(* head of the loop, and so when the review request is built and after     *)
(* it; the access debugger_outputs[i] of line 154 never raises IndexError. *)
C30_OutputLengths ==
  \A r \in Runs :
    results[r] # None =>
      LET coder == Len(results[r].coder_outputs)
          debugger == Len(results[r].debugger_outputs)
      IN /\ debugger <= coder
         /\ coder <= debugger + 1
         /\ pc[r] \in {"loop", "reviewer_llm", "done"} => coder = debugger
         /\ \A n \in 1..Len(error_log) :
              error_log[n].run = r => error_log[n].exc # "IndexError"

\* the review request of a run was built from MaxSubtasks coder outputs
C30_Witness ==
  \E r \in Runs :
    /\ pc[r] = "reviewer_llm"
    /\ Len(results[r].coder_outputs) = MaxSubtasks
    /\ Len(results[r].debugger_outputs) = MaxSubtasks
    /\ message[r].recipient = "Reviewer"

----------------------------------------------------------------------------
\* sender and recipient of the request Messages the orchestrator builds
RequestAddressing ==
  {<<"User", "Planner">>, <<"Planner", "Coder">>, <<"Coder", "Debugger">>,
   <<"Coordinator", "Reviewer">>}

(* C31: the conversation_history of a coordinator holds one Message for    *)
(* every generation call that returned, in the order of the calls: the     *)
(* reply of the agent that was called, never a request the orchestrator    *)
(* built.  When the first run of a coordinator is done and no other run    *)
(* was called, it holds exactly 2 * K + 2 Messages, K the number of        *)
(* subtasks: from the Planner, then from the Coder and the Debugger for    *)
(* each subtask, then from the Reviewer.                                   *)
C31_ConversationLog ==
  /\ Len(conversation_history) = Len(Returns)
  /\ \A n \in 1..Len(conversation_history) :
       /\ conversation_history[n].sender = Returns[n].agent
       /\ conversation_history[n].content =
            IF Returns[n].agent = "Planner"
              THEN PlannerContent(Returns[n].text)
              ELSE Returns[n].text
       /\ <<conversation_history[n].sender, conversation_history[n].recipient>>
            \notin RequestAddressing
  /\ (pc[1] = "done" /\ \A q \in DOMAIN pc \ {1} : pc[q] = "idle") =>
       /\ Len(conversation_history) = 2 * NumSubtasks(1) + 2
       /\ \A n \in 1..Len(conversation_history) :
            conversation_history[n].sender = ExpectedAgent(n, NumSubtasks(1))

\* the only run of a coordinator is done, on a plan of MaxSubtasks subtasks
C31_Witness ==
  /\ pc[1] = "done"
  /\ NumSubtasks(1) = MaxSubtasks
  /\ Len(conversation_history) = 2 * MaxSubtasks + 2
  /\ conversation_history[2].recipient = "Planner"

----------------------------------------------------------------------------
\* the result fields of run r hold only what the agents replied to the
\* requests of run r: the plan a Planner call of run r returned, for each
\* recorded subtask j the Coder's answer to the request for subtask j of
\* the run's plan and the Debugger's answer to that code, the Reviewer's
\* answer to the review request of the run's task and outputs
OwnOutputs(r) ==
  LET res == results[r]
  IN /\ res.original_task = user_task[r]
     /\ res.planner_output # None =>
          \E text \in PlannerTexts(r) : res.planner_output = PlannerContent(text)
     /\ \A j \in 1..Len(res.coder_outputs) :
          /\ res.coder_outputs[j].subtask = subtasks[r].items[j]
          /\ res.coder_outputs[j].code = CoderTexts(r)[j]
          /\ res.coder_outputs[j].code.re = CoderPromptFor(j, subtasks[r].items[j])
     /\ \A j \in 1..Len(res.debugger_outputs) :
          /\ res.debugger_outputs[j].subtask = subtasks[r].items[j]
          /\ res.debugger_outputs[j].feedback = DebuggerTexts(r)[j]
          /\ res.debugger_outputs[j].feedback.re =
               UserPrompt("Debugger", res.coder_outputs[j].code)
     /\ res.reviewer_output # None =>
          /\ res.reviewer_output.re.content.task = user_task[r]
          /\ res.reviewer_output.re.content.plan = res.planner_output
          /\ \A j \in 1..Len(res.coder_outputs) :
               /\ res.reviewer_output.re.content.parts[j].code =
                    res.coder_outputs[j].code
               /\ res.reviewer_output.re.content.parts[j].feedback =
                    res.debugger_outputs[j].feedback
     /\ res.final_code # None => res.final_code = FinalCode(res.coder_outputs)

(* C32: when the steps of two runs on one coordinator interleave, in every *)
(* order, the planner_output, coder_outputs, debugger_outputs,             *)
(* reviewer_output and final_code of each run hold only outputs the agents *)
(* produced for that run's own requests, and a step of one run leaves the  *)
(* results of the other run as they were.                                  *)
C32_RunsIsolated ==
  /\ [](\A r \in DOMAIN pc : results[r] # None => OwnOutputs(r))
  /\ [][\A r \in DOMAIN pc : pc'[r] = pc[r] => results'[r] = results[r]]_vars

\* both runs are done, and the Coder of the second run was called while
\* the first run waited for its own Coder call
C32_Witness ==
  /\ \A r \in DOMAIN pc : pc[r] = "done" /\ Len(results[r].coder_outputs) = 1
  /\ DOMAIN pc = InterleavedRuns
  /\ \E n \in 1..(Len(llm_calls) - 1) :
       /\ llm_calls[n] = Invoke(1, "Coder", llm_calls[n].text)
       /\ llm_calls[n + 1] = Invoke(2, "Coder", llm_calls[n + 1].text)

----------------------------------------------------------------------------
\* some run is inside the process_message of agent
InCall(agent) == \E r \in DOMAIN pc : Invoked(r) = agent

\* the Messages of the history of agent are, in turn, one it received and
\* its reply to that one
Alternates(agent) ==
  LET history == message_history[agent]
  IN \A n \in 1..Len(history) :
       IF n % 2 = 1
         THEN history[n].recipient = agent /\ history[n].sender # agent
         ELSE /\ history[n].sender = agent
              /\ history[n].recipient = history[n - 1].sender

(* C33 as claimed: after n successful process_message calls on an agent,   *)
(* over all the runs of a coordinator, the agent's message_history has     *)
(* length 2n, an incoming Message and its reply in turn.                   *)
C33_Original ==
  \A agent \in Agents :
    ~InCall(agent) =>
      /\ Len(message_history[agent]) = 2 * CountOf(agent, "return")
      /\ Alternates(agent)

(* C33: a successful process_message call adds two Messages to the agent's *)
(* history, the incoming Message and then the reply; a call whose          *)
(* generation call fails adds the incoming Message alone; nothing is       *)
(* removed between runs.  After n successful and f failed calls the        *)
(* history has length 2n + f, every reply directly after the Message it    *)
(* answers; incoming Message and reply alternate when no call failed.      *)
C33_HistoryGrowth ==
  \A agent \in Agents :
    LET history == message_history[agent]
        called == IF InCall(agent) THEN 1 ELSE 0
    IN /\ Len(history) =
            2 * CountOf(agent, "return") + CountOf(agent, "raise") + called
       /\ \A n \in 1..Len(history) :
            history[n].sender = agent =>
              /\ n > 1
              /\ history[n - 1].recipient = agent
              /\ history[n - 1].sender = history[n].recipient
       /\ (CountOf(agent, "raise") = 0 /\ ~InCall(agent)) =>
            /\ Len(history) = 2 * CountOf(agent, "return")
            /\ Alternates(agent)

\* the Planner's generation call failed in one run and returned in the
\* next: its history holds two incoming Messages and then one reply
C33_Witness ==
  /\ CountOf("Planner", "raise") = 1
  /\ CountOf("Planner", "return") = 1
  /\ ~InCall("Planner")
  /\ Len(message_history["Planner"]) = 3
  /\ message_history["Planner"][2].sender = "User"
  /\ message_history["Planner"][3].sender = "Planner"

----------------------------------------------------------------------------
\* the description the request for a subtask carries: its description, its
\* title when it has no description, the empty text when it has neither
DescriptionOrTitle(subtask) ==
  IF "description" \in DOMAIN subtask.d THEN subtask.d.description.s
  ELSE IF "title" \in DOMAIN subtask.d THEN subtask.d.title.s
  ELSE ""

(* C34: the j-th request to the Coder in a run, counted from 1, is         *)
(* "Subtask j: " followed by the description of the j-th subtask of the    *)
(* plan, by its title when it has no description, by nothing when it has   *)
(* neither.  A subtask without these fields is not skipped and does not    *)
(* make the run fail: a run on a list of subtask objects fails only when a *)
(* generation call failed, and a run that is done called the Coder for     *)
(* every subtask.                                                          *)
C34_WorkerRequest ==
  \A r \in Runs :
    LET coder == PromptsOf(r, "Coder")
    IN /\ \A j \in 1..Len(coder) :
            coder[j] =
              [k |-> "prompt", agent |-> "Coder",
               content |-> [k |-> "subtask", n |-> j,
                            description |->
                              DescriptionOrTitle(subtasks[r].items[j])]]
       /\ (pc[r] = "failed" /\ PlanOfSubtasks(r)) => FailedCalls(r) # {}
       /\ pc[r] = "done" => Len(coder) = Len(subtasks[r].items)

\* a run is done whose plan has a subtask without description and title:
\* the Coder was asked with an empty description
C34_Witness ==
  \E r \in Runs :
    /\ pc[r] = "done"
    /\ \E j \in 1..Len(subtasks[r].items) :
         /\ DOMAIN subtasks[r].items[j].d \cap {"description", "title"} = {}
         /\ PromptsOf(r, "Coder")[j].content.description = ""
         /\ PromptsOf(r, "Coder")[j].content.n = j

====
